---- MODULE Spec2Model ----
(***************************************************************************)
(* State-machine models of the example programs of the Boost.Python        *)
(* notebooks: the context managers, the GIL-guarded threads, the           *)
(* MyGenerator iterator, the dynamic-attribute classes and the             *)
(* metaclasses.  Each group of examples has its own variables and its own  *)
(* specification; a specification leaves the other groups' variables at    *)
(* their initial values.                                                   *)
(***************************************************************************)
EXTENDS Integers, Sequences, FiniteSets, TLC

VARIABLES
    \* 24.Python_s_Context_Manager_Protocol.ipynb
    db,         \* the DatabaseConnectionContextManager object: [connected]
    dbOut,      \* the lines it wrote to std::cout
    dbLast,     \* history: the last of constructor / __enter__ / __exit__ that ran
    wpc,        \* position of the `with SimpleContextManager() as value:` statement
    wBody,      \* how the body of the current with block ends: "normal" or "raise"
    wTrace,     \* history: the events of the current with block, in order
    wOut,       \* the lines printed by the current with block
    wValue,     \* the name `value` bound by `as value`
    wBlocks,    \* number of with blocks completed
    \* 14.Python_s_Iteration_Protocol.ipynb, Example 1 (two threads)
    gil1,       \* the thread holding the GIL, NoThread when it is free
    main1,      \* position of main
    pc1,        \* position of each thread running thread_function
    \* Example 3 (four threads)
    gil3,
    main3,      \* [spawned, joined]: threads started and threads joined by main
    pc3,        \* position of each thread running call_python_code(i)
    \* Example 4 (call_python_function)
    gil4,
    pc4,        \* position of the thread calling call_python_function
    err4,       \* the lines written to stderr
    calls4,     \* calls of call_python_function that returned
    \* 13.Iterators_and_Generators.ipynb
    genBuilt,   \* whether my_generator has been constructed
    gen,        \* the MyGenerator object: [m_current, m_end]
    genStart,   \* history: the start the generator was built with
    pyErr,      \* the interpreter's error indicator: "none" or the exception set
    lastNext,   \* history: the last call of next(): [called, exhausted, threw, returned]
    fpc,        \* how `for i in my_generator: print(i)` ended, "idle" before it ran
    fFrom,      \* history: m_current when the for statement started
    fOut,       \* the numbers printed by the loop
    \* unnamed/part_003 : DynamicAttributes, DynamicDict, LoggingAttributes
    cls,        \* the class of the instance, "none" before it is built
    store,      \* the value of the instance attribute _attributes (_dict)
    aRes,       \* the last operation on the instance and how it ended
    aPrinted,   \* the last line printed by LoggingAttributes
    lastSet,    \* history: per name, the value of its latest set not deleted since
    rebound,    \* history: the storage attribute was assigned after construction
    \* 23.Python_s_Metaclass_Protocol.ipynb
    mpc,        \* position of a class statement with metaclass=MetaProtocol
    mName,      \* the name of the class being created
    mTrace,     \* history: the metaclass methods invoked for it, in order
    mOut,       \* the lines printed while it is created
    mCreated,   \* number of class statements with metaclass=MetaProtocol that ended
    hClasses,   \* the classes created with metaclass=HelloMeta
    hRes        \* the last class statement with metaclass=HelloMeta and how it ended

ctxVars == <<db, dbOut, dbLast, wpc, wBody, wTrace, wOut, wValue, wBlocks>>
gilVars == <<gil1, main1, pc1, gil3, main3, pc3, gil4, pc4, err4, calls4>>

genVars == <<genBuilt, gen, genStart, pyErr, lastNext, fpc, fFrom, fOut>>

dynVars == <<cls, store, aRes, aPrinted, lastSet, rebound>>

metaVars == <<mpc, mName, mTrace, mOut, mCreated, hClasses, hRes>>

vars == <<ctxVars, gilVars, genVars, dynVars, metaVars>>

\* ------------------------------------------------------------------ bounds
MaxOut == 3        \* lines of std::cout kept for the database manager
MaxBlocks == 2     \* with blocks run one after the other
MaxCalls == 2      \* calls of call_python_function
MaxStart == 1      \* MyGenerator(start, end): start in 0 .. MaxStart
MaxEnd == 5        \* end in 0 .. MaxEnd
MaxOverrun == 2    \* calls of next() followed past m_end
MaxValue == 2      \* attribute values are the integers 1 .. MaxValue
MaxCreated == 2    \* class statements with metaclass=MetaProtocol
MaxClasses == 2    \* classes created with metaclass=HelloMeta

\* ==========================================================================
\* 24.Python_s_Context_Manager_Protocol.ipynb : DatabaseConnectionContextManager
\* ==========================================================================
Queries == {"SELECT 1", "DELETE"}

\* DatabaseConnectionContextManager(conn_str) : connected(false)
DatabaseConnectionContextManager == [connected |-> FALSE]

\* void enter() { ...; connected = true; }
enter(self) == [self EXCEPT !.connected = TRUE]

enter_line == "Connecting to database with connection string: db"

exit_stays_connected(self) == self
\* void exit(exc_type, exc_value, traceback) { ...; connected = false; }
exit(self) == [self EXCEPT !.connected = FALSE]

exit_line == "Disconnecting from database"

\* void execute_query(query): prints the query when connected, a refusal otherwise
execute_query(self, query) ==
    IF self.connected THEN "Executing query: " \o query
                      ELSE "Not connected to the database"

\* void begin_transaction()
begin_transaction(self) ==
    IF self.connected THEN "Beginning transaction"
                      ELSE "Not connected to the database"

\* void commit_transaction()
commit_transaction(self) ==
    IF self.connected THEN "Committing transaction"
                      ELSE "Not connected to the database"

DbEnter ==
    /\ Len(dbOut) < MaxOut
    /\ db' = enter(db)
    /\ dbOut' = Append(dbOut, enter_line)
    /\ dbLast' = "enter"
    /\ UNCHANGED <<wpc, wBody, wTrace, wOut, wValue, wBlocks>>
    /\ UNCHANGED <<gilVars, genVars, dynVars, metaVars>>

DbExit ==
    /\ Len(dbOut) < MaxOut
    /\ db' = exit(db)
    /\ dbOut' = Append(dbOut, exit_line)
    /\ dbLast' = "exit"
    /\ UNCHANGED <<wpc, wBody, wTrace, wOut, wValue, wBlocks>>
    /\ UNCHANGED <<gilVars, genVars, dynVars, metaVars>>

DbExecuteQuery ==
    /\ Len(dbOut) < MaxOut
    /\ \E q \in Queries : dbOut' = Append(dbOut, execute_query(db, q))
    /\ UNCHANGED <<db, dbLast, wpc, wBody, wTrace, wOut, wValue, wBlocks>>
    /\ UNCHANGED <<gilVars, genVars, dynVars, metaVars>>

DbBeginTransaction ==
    /\ Len(dbOut) < MaxOut
    /\ dbOut' = Append(dbOut, begin_transaction(db))
    /\ UNCHANGED <<db, dbLast, wpc, wBody, wTrace, wOut, wValue, wBlocks>>
    /\ UNCHANGED <<gilVars, genVars, dynVars, metaVars>>

DbCommitTransaction ==
    /\ Len(dbOut) < MaxOut
    /\ dbOut' = Append(dbOut, commit_transaction(db))
    /\ UNCHANGED <<db, dbLast, wpc, wBody, wTrace, wOut, wValue, wBlocks>>
    /\ UNCHANGED <<gilVars, genVars, dynVars, metaVars>>

\* ==========================================================================
\* 24.Python_s_Context_Manager_Protocol.ipynb : SimpleContextManager and the
\* with statement over it
\* ==========================================================================
\* def __enter__(self): print('Entering the context'); return 'Inside Context'
SimpleContextManager_enter ==
    [printed |-> "Entering the context", result |-> "Inside Context"]

\* def __exit__(self, exc_type, exc_value, traceback):
\*     print('Exiting the context'); return False
SimpleContextManager_exit(raised) ==
    [printed |-> "Exiting the context", result |-> FALSE]

WithAfterBody_skips_exit_on_exception(raised) ==
    IF raised THEN "propagated" ELSE "exit"
\* Where the with statement goes when its body has ended: __exit__ is executed
\* "whether it was exited normally or via an exception".
WithAfterBody(raised) == "exit"

\* After __exit__: an exception in flight is suppressed only by a true result.
WithAfterExit(raised, suppress) ==
    IF raised /\ ~suppress THEN "propagated" ELSE "done"

\* `with SimpleContextManager() as value:` : the manager is built, no method yet
WithStart ==
    /\ wpc \in {"idle", "done", "propagated"}
    /\ wBlocks < MaxBlocks
    /\ wpc' = "enter"
    /\ wBody' \in {"normal", "raise"}
    /\ wTrace' = <<>>
    /\ wOut' = <<>>
    /\ wValue' = "unbound"
    /\ UNCHANGED <<db, dbOut, dbLast, wBlocks>>
    /\ UNCHANGED <<gilVars, genVars, dynVars, metaVars>>

\* __enter__ runs and its result is bound to `value`
WithEnter ==
    /\ wpc = "enter"
    /\ wOut' = Append(wOut, SimpleContextManager_enter.printed)
    /\ wValue' = SimpleContextManager_enter.result
    /\ wTrace' = Append(wTrace, "enter")
    /\ wpc' = "body"
    /\ UNCHANGED <<db, dbOut, dbLast, wBody, wBlocks>>
    /\ UNCHANGED <<gilVars, genVars, dynVars, metaVars>>

\* the body: print(value), or a body that raises
WithBody ==
    /\ wpc = "body"
    /\ wOut' = IF wBody = "normal" THEN Append(wOut, wValue) ELSE wOut
    /\ wTrace' = Append(wTrace, "body")
    /\ wpc' = WithAfterBody(wBody = "raise")
    /\ wBlocks' = IF wpc' = "exit" THEN wBlocks ELSE wBlocks + 1
    /\ UNCHANGED <<db, dbOut, dbLast, wBody, wValue>>
    /\ UNCHANGED <<gilVars, genVars, dynVars, metaVars>>

\* __exit__ runs; its result decides whether an exception propagates
WithExit ==
    /\ wpc = "exit"
    /\ LET r == SimpleContextManager_exit(wBody = "raise")
       IN /\ wOut' = Append(wOut, r.printed)
          /\ wpc' = WithAfterExit(wBody = "raise", r.result)
    /\ wTrace' = Append(wTrace, "exit")
    /\ wBlocks' = wBlocks + 1
    /\ UNCHANGED <<db, dbOut, dbLast, wBody, wValue>>
    /\ UNCHANGED <<gilVars, genVars, dynVars, metaVars>>

\* ==========================================================================
\* 14.Python_s_Iteration_Protocol.ipynb : managing the GIL
\* ==========================================================================
NoThread == 0

gil_free_always(gil) == TRUE
\* The GIL is a mutex: gil_scoped_acquire's constructor returns only once no
\* other thread holds it.
gil_free(gil) == gil = NoThread

\* "When an instance of this class is created, it acquires the GIL"
gil_scoped_acquire_ctor(gil, t) == t

gil_scoped_acquire_dtor_keeps_gil(gil, t) == gil
\* "when it goes out of scope, it releases the GIL"
gil_scoped_acquire_dtor(gil, t) == IF gil = t THEN NoThread ELSE gil

\* ---- Example 1: main starts t1 and t2 running thread_function, then joins
Example1Threads == 2
Threads1 == 1 .. Example1Threads

Main1Spawn ==
    /\ main1 \in {"spawn_t1", "spawn_t2"}
    /\ LET t == IF main1 = "spawn_t1" THEN 1 ELSE 2
       IN pc1' = [pc1 EXCEPT ![t] = "other_before"]
    /\ main1' = IF main1 = "spawn_t1" THEN "spawn_t2" ELSE "join_t1"
    /\ UNCHANGED <<gil1, gil3, main3, pc3, gil4, pc4, err4, calls4>>
    /\ UNCHANGED <<ctxVars, genVars, dynVars, metaVars>>

Main1Join ==
    /\ main1 \in {"join_t1", "join_t2"}
    /\ pc1[IF main1 = "join_t1" THEN 1 ELSE 2] = "done"
    /\ main1' = IF main1 = "join_t1" THEN "join_t2" ELSE "returned"
    /\ UNCHANGED <<gil1, pc1, gil3, main3, pc3, gil4, pc4, err4, calls4>>
    /\ UNCHANGED <<ctxVars, genVars, dynVars, metaVars>>

\* thread_function: "... Other C++ code ..." then the call of call_python_code
Thread1OtherBefore(t) ==
    /\ pc1[t] = "other_before"
    /\ pc1' = [pc1 EXCEPT ![t] = "acquire"]
    /\ UNCHANGED <<gil1, main1, gil3, main3, pc3, gil4, pc4, err4, calls4>>
    /\ UNCHANGED <<ctxVars, genVars, dynVars, metaVars>>

\* call_python_code: boost::python::gil_scoped_acquire acquire;
Thread1Acquire(t) ==
    /\ pc1[t] = "acquire"
    /\ gil_free(gil1)
    /\ gil1' = gil_scoped_acquire_ctor(gil1, t)
    /\ pc1' = [pc1 EXCEPT ![t] = "python"]
    /\ UNCHANGED <<main1, gil3, main3, pc3, gil4, pc4, err4, calls4>>
    /\ UNCHANGED <<ctxVars, genVars, dynVars, metaVars>>

\* "Call Python code here", then the end of call_python_code's scope
Thread1PythonAndRelease(t) ==
    /\ pc1[t] = "python"
    /\ gil1' = gil_scoped_acquire_dtor(gil1, t)
    /\ pc1' = [pc1 EXCEPT ![t] = "other_after"]
    /\ UNCHANGED <<main1, gil3, main3, pc3, gil4, pc4, err4, calls4>>
    /\ UNCHANGED <<ctxVars, genVars, dynVars, metaVars>>

\* "... Other C++ code ..." after the call; thread_function returns
Thread1OtherAfter(t) ==
    /\ pc1[t] = "other_after"
    /\ pc1' = [pc1 EXCEPT ![t] = "done"]
    /\ UNCHANGED <<gil1, main1, gil3, main3, pc3, gil4, pc4, err4, calls4>>
    /\ UNCHANGED <<ctxVars, genVars, dynVars, metaVars>>

\* ---- Example 3: main starts four threads running call_python_code(i)
Example3Threads == 4
Threads3 == 1 .. Example3Threads

\* An exception that leaves a std::thread's function ends the process.
Terminated3 == \E t \in Threads3 : pc3[t] = "terminate"

\* for (int i = 0; i < 4; ++i) threads.emplace_back(call_python_code, i);
Main3Spawn ==
    /\ ~Terminated3
    /\ main3.spawned < Example3Threads
    /\ pc3' = [pc3 EXCEPT ![main3.spawned + 1] = "acquire"]
    /\ main3' = [main3 EXCEPT !.spawned = @ + 1]
    /\ UNCHANGED <<gil1, main1, pc1, gil3, gil4, pc4, err4, calls4>>
    /\ UNCHANGED <<ctxVars, genVars, dynVars, metaVars>>

\* for (auto& t : threads) t.join();
Main3Join ==
    /\ ~Terminated3
    /\ main3.spawned = Example3Threads
    /\ main3.joined < Example3Threads
    /\ pc3[main3.joined + 1] = "done"
    /\ main3' = [main3 EXCEPT !.joined = @ + 1]
    /\ UNCHANGED <<gil1, main1, pc1, gil3, pc3, gil4, pc4, err4, calls4>>
    /\ UNCHANGED <<ctxVars, genVars, dynVars, metaVars>>

\* boost::python::gil_scoped_acquire acquire;
Thread3Acquire(t) ==
    /\ ~Terminated3
    /\ pc3[t] = "acquire"
    /\ gil_free(gil3)
    /\ gil3' = gil_scoped_acquire_ctor(gil3, t)
    /\ pc3' = [pc3 EXCEPT ![t] = "python"]
    /\ UNCHANGED <<gil1, main1, pc1, main3, gil4, pc4, err4, calls4>>
    /\ UNCHANGED <<ctxVars, genVars, dynVars, metaVars>>

\* call_function<void>("python_function", thread_id) returns; the scope ends
Thread3PythonAndRelease(t) ==
    /\ ~Terminated3
    /\ pc3[t] = "python"
    /\ gil3' = gil_scoped_acquire_dtor(gil3, t)
    /\ pc3' = [pc3 EXCEPT ![t] = "done"]
    /\ UNCHANGED <<gil1, main1, pc1, main3, gil4, pc4, err4, calls4>>
    /\ UNCHANGED <<ctxVars, genVars, dynVars, metaVars>>

\* call_function throws error_already_set: nothing in the thread catches it
Thread3PythonRaises(t) ==
    /\ ~Terminated3
    /\ pc3[t] = "python"
    /\ pc3' = [pc3 EXCEPT ![t] = "terminate"]
    /\ UNCHANGED <<gil1, main1, pc1, gil3, main3, gil4, pc4, err4, calls4>>
    /\ UNCHANGED <<ctxVars, genVars, dynVars, metaVars>>

\* ---- Example 4: call_python_function
Caller4 == 1
Others4 == {2}

\* call_python_function is called; gil_scoped_acquire acquire;
Call4Acquire ==
    /\ pc4 = "idle"
    /\ calls4 < MaxCalls
    /\ gil_free(gil4)
    /\ gil4' = gil_scoped_acquire_ctor(gil4, Caller4)
    /\ pc4' = "try"
    /\ err4' = <<>>
    /\ UNCHANGED <<gil1, main1, pc1, gil3, main3, pc3, calls4>>
    /\ UNCHANGED <<ctxVars, genVars, dynVars, metaVars>>

\* try { call_function<void>("python_function"); } : returns or throws
Call4Python ==
    /\ pc4 = "try"
    /\ pc4' \in {"scope_end", "catch"}
    /\ UNCHANGED <<gil1, main1, pc1, gil3, main3, pc3, gil4, err4, calls4>>
    /\ UNCHANGED <<ctxVars, genVars, dynVars, metaVars>>

\* catch (const error_already_set&) { PyErr_Print(); std::cerr << ...; }
Call4Catch ==
    /\ pc4 = "catch"
    /\ err4' = <<"Python error message", "Caught Python exception">>
    /\ pc4' = "scope_end"
    /\ UNCHANGED <<gil1, main1, pc1, gil3, main3, pc3, gil4, calls4>>
    /\ UNCHANGED <<ctxVars, genVars, dynVars, metaVars>>

\* the closing brace: `acquire` goes out of scope, the function returns
Call4Return ==
    /\ pc4 = "scope_end"
    /\ gil4' = gil_scoped_acquire_dtor(gil4, Caller4)
    /\ pc4' = "returned"
    /\ calls4' = calls4 + 1
    /\ UNCHANGED <<gil1, main1, pc1, gil3, main3, pc3, err4>>
    /\ UNCHANGED <<ctxVars, genVars, dynVars, metaVars>>

\* the caller goes on and may call again
Call4Again ==
    /\ pc4 = "returned"
    /\ calls4 < MaxCalls
    /\ pc4' = "idle"
    /\ UNCHANGED <<gil1, main1, pc1, gil3, main3, pc3, gil4, err4, calls4>>
    /\ UNCHANGED <<ctxVars, genVars, dynVars, metaVars>>

\* another thread of the program takes the GIL while it is free, and gives it back
Other4Acquire(t) ==
    /\ gil_free(gil4)
    /\ gil4' = gil_scoped_acquire_ctor(gil4, t)
    /\ UNCHANGED <<gil1, main1, pc1, gil3, main3, pc3, pc4, err4, calls4>>
    /\ UNCHANGED <<ctxVars, genVars, dynVars, metaVars>>

Other4Release(t) ==
    /\ gil4 = t
    /\ gil4' = gil_scoped_acquire_dtor(gil4, t)
    /\ UNCHANGED <<gil1, main1, pc1, gil3, main3, pc3, pc4, err4, calls4>>
    /\ UNCHANGED <<ctxVars, genVars, dynVars, metaVars>>

\* ==========================================================================
\* 13.Iterators_and_Generators.ipynb : MyGenerator
\* ==========================================================================
\* MyGenerator(int start, int end) : m_current(start), m_end(end) {}
MyGenerator(start, end) == [m_current |-> start, m_end |-> end]

\* int next() {
\*     if (m_current >= m_end)
\*         PyErr_SetString(PyExc_StopIteration, "No more numbers.");
\*     return m_current++;
\* }
\* PyErr_SetString sets the interpreter's error indicator and returns; nothing
\* is thrown, so the return statement runs in both cases.
next(self) ==
    [self     |-> [self EXCEPT !.m_current = @ + 1],
     threw    |-> FALSE,
     returned |-> TRUE,
     value    |-> self.m_current,
     pyerr    |-> IF self.m_current >= self.m_end THEN "StopIteration" ELSE "none"]

\* class_<MyGenerator>("MyGenerator", init<int, int>())
\*     .def("next", &MyGenerator::next)
\*     .def("__iter__", &MyGenerator::pass_through);
\* The methods the Python class gets.  __iter__ is the one the text describes:
\* it returns self.
Registered == {"next", "__iter__"}

\* The start of `for i in obj` under the notebook's kernel (Python 3): iter(obj)
\* calls __iter__ and accepts its result only when it has a __next__ method;
\* otherwise the statement ends with TypeError before anything is asked of the
\* object.
for_iter(methods) ==
    IF "__iter__" \in methods /\ "__next__" \in methods THEN "iterating"
    ELSE "TypeError"

NextCallAllowed == genBuilt /\ gen.m_current < gen.m_end + MaxOverrun

\* my_generator = example.MyGenerator(start, end)
GenConstruct ==
    /\ ~genBuilt
    /\ genBuilt' = TRUE
    /\ \E start \in 0 .. MaxStart, end \in 0 .. MaxEnd :
         /\ gen' = MyGenerator(start, end)
         /\ genStart' = start
    /\ UNCHANGED <<pyErr, lastNext, fpc, fFrom, fOut>>
    /\ UNCHANGED <<ctxVars, gilVars, dynVars, metaVars>>

\* my_generator.next(), called directly
GenCallNext ==
    /\ NextCallAllowed
    /\ LET r == next(gen)
       IN /\ gen' = r.self
          /\ pyErr' = IF r.pyerr = "none" THEN pyErr ELSE r.pyerr
          /\ lastNext' = [called |-> TRUE, exhausted |-> gen.m_current >= gen.m_end,
                          threw |-> r.threw, returned |-> r.returned]
    /\ UNCHANGED <<genBuilt, genStart, fpc, fFrom, fOut>>
    /\ UNCHANGED <<ctxVars, gilVars, dynVars, metaVars>>

\* for i in my_generator:
\*     print(i)
\* The class has no __next__, so the statement ends in iter(my_generator):
\* next() is not called, the generator is left as it was, nothing is printed.
ForStart ==
    /\ genBuilt
    /\ for_iter(Registered) = "TypeError"
    /\ fpc' = "TypeError"
    /\ fFrom' = gen.m_current
    /\ UNCHANGED <<genBuilt, gen, genStart, pyErr, lastNext, fOut>>
    /\ UNCHANGED <<ctxVars, gilVars, dynVars, metaVars>>

\* ==========================================================================
\* unnamed/part_003 : the dynamic attribute protocol
\* ==========================================================================
Classes == {"DynamicAttributes", "DynamicDict", "LoggingAttributes"}

\* The instance attribute the class keeps its dictionary in.
StorageName(c) == IF c = "DynamicDict" THEN "_dict" ELSE "_attributes"

\* Attribute names used on the instance: an ordinary one, both storage names,
\* and a name the class itself defines.
Names == {"new_attr", "_attributes", "_dict", "__init__"}

\* Names found on the class by normal lookup: __getattr__ is not called for them.
ClassAttrs == {"__init__"}

\* A Python dict with integer values: per key its value, Absent when not a key.
Absent == 0
Values == 1 .. MaxValue
EmptyDict == [n \in Names |-> Absent]

\* Python values: integers, dicts, bound methods, and None.
IntVal(n) == [kind |-> "int", n |-> n, d |-> EmptyDict]
DictVal(d) == [kind |-> "dict", n |-> 0, d |-> d]
MethodVal == [kind |-> "method", n |-> 0, d |-> EmptyDict]
NoneVal == [kind |-> "none", n |-> 0, d |-> EmptyDict]

\* Values a client assigns to the storage attribute itself.
StorageValues ==
    {IntVal(1), DictVal(EmptyDict), DictVal([EmptyDict EXCEPT !["new_attr"] = 1])}

\* def __init__(self): self._attributes = {}
\* (name == '_attributes', so __setattr__ hands it to super().__setattr__)
DynamicAttributes_init == DictVal(EmptyDict)

\* def __getattr__(self, name):
\*     try: return self._attributes[name]
\*     except KeyError: raise AttributeError(...)
\* Subscripting a value that is no dict raises TypeError, which is not caught.
DynamicAttributes_getattr(st, name) ==
    IF st.kind # "dict" THEN [outcome |-> "TypeError", value |-> NoneVal]
    ELSE IF st.d[name] = Absent THEN [outcome |-> "AttributeError", value |-> NoneVal]
    ELSE [outcome |-> "value", value |-> IntVal(st.d[name])]

\* Attribute access obj.name: normal lookup finds the storage attribute in the
\* instance dictionary and the class's own attributes on the class; only when
\* it finds nothing is __getattr__ called.
GetAttribute(c, st, name) ==
    IF name = StorageName(c) THEN [outcome |-> "value", value |-> st]
    ELSE IF name \in ClassAttrs THEN [outcome |-> "value", value |-> MethodVal]
    ELSE DynamicAttributes_getattr(st, name)

setattr_drops_value(c, st, name, v) ==
    IF name = StorageName(c) THEN [store |-> v, outcome |-> "ok"]
    ELSE [store |-> st, outcome |-> IF st.kind # "dict" THEN "TypeError" ELSE "ok"]
\* def __setattr__(self, name, value):
\*     if name == '_attributes': super().__setattr__(name, value)
\*     else: self._attributes[name] = value
DynamicAttributes_setattr(c, st, name, v) ==
    IF name = StorageName(c) THEN [store |-> v, outcome |-> "ok"]
    ELSE IF st.kind # "dict" THEN [store |-> st, outcome |-> "TypeError"]
    ELSE [store |-> DictVal([st.d EXCEPT ![name] = v.n]), outcome |-> "ok"]

delattr_ignores_missing(st, name) ==
    IF st.kind # "dict" THEN [store |-> st, outcome |-> "TypeError"]
    ELSE [store |-> DictVal([st.d EXCEPT ![name] = Absent]), outcome |-> "ok"]
\* def __delattr__(self, name):
\*     try: del self._attributes[name]
\*     except KeyError: raise AttributeError(...)
DynamicAttributes_delattr(st, name) ==
    IF st.kind # "dict" THEN [store |-> st, outcome |-> "TypeError"]
    ELSE IF st.d[name] = Absent THEN [store |-> st, outcome |-> "AttributeError"]
    ELSE [store |-> DictVal([st.d EXCEPT ![name] = Absent]), outcome |-> "ok"]

NoLine == [verb |-> "", name |-> "", value |-> NoneVal]

\* LoggingAttributes.__setattr__: print(f'Setting attribute {name} to {value}')
\* on the branch that stores into the dictionary.
SetLine(c, name, v, old) ==
    IF c = "LoggingAttributes" /\ name # StorageName(c)
    THEN [verb |-> "Setting attribute", name |-> name, value |-> v]
    ELSE old

\* LoggingAttributes.__delattr__: print(f'Deleting attribute {name}') before the del
DelLine(c, name, old) ==
    IF c = "LoggingAttributes"
    THEN [verb |-> "Deleting attribute", name |-> name, value |-> NoneVal]
    ELSE old

\* dyn_attr = DynamicAttributes()   (or DynamicDict(), LoggingAttributes())
DynConstruct ==
    /\ cls = "none"
    /\ cls' \in Classes
    /\ store' = DynamicAttributes_init
    /\ UNCHANGED <<aRes, aPrinted, lastSet, rebound>>
    /\ UNCHANGED <<ctxVars, gilVars, genVars, metaVars>>

\* print(dyn_attr.name)
DynGet ==
    /\ cls # "none"
    /\ \E name \in Names :
         LET r == GetAttribute(cls, store, name)
         IN aRes' = [op |-> "get", name |-> name, outcome |-> r.outcome,
                     value |-> r.value, before |-> store,
                     absent |-> lastSet[name] = Absent]
    /\ UNCHANGED <<cls, store, aPrinted, lastSet, rebound>>
    /\ UNCHANGED <<ctxVars, gilVars, genVars, metaVars>>

\* dyn_attr.name = value
DynSet ==
    /\ cls # "none"
    /\ \E name \in Names :
       \E v \in IF name = StorageName(cls) THEN StorageValues
                                          ELSE {IntVal(n) : n \in Values} :
         LET r == DynamicAttributes_setattr(cls, store, name, v)
         IN /\ store' = r.store
            /\ aPrinted' = SetLine(cls, name, v, aPrinted)
            /\ aRes' = [op |-> "set", name |-> name, outcome |-> r.outcome,
                        value |-> NoneVal, before |-> store,
                        absent |-> lastSet[name] = Absent]
            /\ lastSet' = IF r.outcome = "ok" /\ name # StorageName(cls)
                          THEN [lastSet EXCEPT ![name] = v.n] ELSE lastSet
            /\ rebound' = (rebound \/ name = StorageName(cls))
    /\ UNCHANGED cls
    /\ UNCHANGED <<ctxVars, gilVars, genVars, metaVars>>

\* del dyn_attr.name
DynDel ==
    /\ cls # "none"
    /\ \E name \in Names :
         LET r == DynamicAttributes_delattr(store, name)
         IN /\ store' = r.store
            /\ aPrinted' = DelLine(cls, name, aPrinted)
            /\ aRes' = [op |-> "del", name |-> name, outcome |-> r.outcome,
                        value |-> NoneVal, before |-> store,
                        absent |-> lastSet[name] = Absent]
            /\ lastSet' = IF r.outcome = "ok"
                          THEN [lastSet EXCEPT ![name] = Absent] ELSE lastSet
    /\ UNCHANGED <<cls, rebound>>
    /\ UNCHANGED <<ctxVars, gilVars, genVars, metaVars>>

\* ==========================================================================
\* 23.Python_s_Metaclass_Protocol.ipynb : MetaProtocol
\* ==========================================================================
ClassNames == {"MyClass", "Other"}

\* The first cell's version: super().__prepare__(name, bases) in a function
\* that is no classmethod raises TypeError after the line is printed.
MetaProtocol_prepare_calls_super(name) ==
    [printed |-> <<"Prepare:", name>>, raised |-> TRUE]
\* def __prepare__(name, bases): print('Prepare:', name); return {}
MetaProtocol_prepare(name) ==
    [printed |-> <<"Prepare:", name>>, raised |-> FALSE]

\* def __new__(cls, name, bases, attrs):
\*     print('New:', name); return super().__new__(cls, name, bases, attrs)
\* type.__new__ returns an instance of cls, so __init__ is called on it.
MetaProtocol_new(name) ==
    [printed |-> <<"New:", name>>, instance_of_cls |-> TRUE]

\* def __init__(self, name, bases, attrs):
\*     print('Init:', name); super().__init__(name, bases, attrs)
MetaProtocol_init(name) ==
    [printed |-> <<"Init:", name>>]

\* class MyClass(metaclass=MetaProtocol): the statement is reached
MetaClassStatement ==
    /\ mpc \in {"idle", "done", "failed"}
    /\ mCreated < MaxCreated
    /\ mName' \in ClassNames
    /\ mpc' = "prepare"
    /\ mTrace' = <<>>
    /\ mOut' = <<>>
    /\ UNCHANGED <<mCreated, hClasses, hRes>>
    /\ UNCHANGED <<ctxVars, gilVars, genVars, dynVars>>

\* Preparation: the metaclass's __prepare__ gives the namespace of the body
MetaPrepare ==
    /\ mpc = "prepare"
    /\ LET r == MetaProtocol_prepare(mName)
       IN /\ mOut' = Append(mOut, r.printed)
          /\ mpc' = IF r.raised THEN "failed" ELSE "body"
          /\ mCreated' = IF r.raised THEN mCreated + 1 ELSE mCreated
    /\ mTrace' = Append(mTrace, "__prepare__")
    /\ UNCHANGED <<mName, hClasses, hRes>>
    /\ UNCHANGED <<ctxVars, gilVars, genVars, dynVars>>

\* the class body (`pass`) runs in that namespace
MetaBody ==
    /\ mpc = "body"
    /\ mpc' = "new"
    /\ UNCHANGED <<mName, mTrace, mOut, mCreated, hClasses, hRes>>
    /\ UNCHANGED <<ctxVars, gilVars, genVars, dynVars>>

\* Creation: the metaclass is called, which calls its __new__
MetaNew ==
    /\ mpc = "new"
    /\ LET r == MetaProtocol_new(mName)
       IN /\ mOut' = Append(mOut, r.printed)
          /\ mpc' = IF r.instance_of_cls THEN "init" ELSE "done"
          /\ mCreated' = IF r.instance_of_cls THEN mCreated ELSE mCreated + 1
    /\ mTrace' = Append(mTrace, "__new__")
    /\ UNCHANGED <<mName, hClasses, hRes>>
    /\ UNCHANGED <<ctxVars, gilVars, genVars, dynVars>>

\* Initialization: __init__ is called on the new class; the name is bound
MetaInit ==
    /\ mpc = "init"
    /\ mOut' = Append(mOut, MetaProtocol_init(mName).printed)
    /\ mTrace' = Append(mTrace, "__init__")
    /\ mpc' = "done"
    /\ mCreated' = mCreated + 1
    /\ UNCHANGED <<mName, hClasses, hRes>>
    /\ UNCHANGED <<ctxVars, gilVars, genVars, dynVars>>

\* ==========================================================================
\* 23.Python_s_Metaclass_Protocol.ipynb : HelloMeta
\* ==========================================================================
\* What a class body binds a name to: nothing, a def, or any other value.
AttrKinds == {"absent", "function", "data"}
BodyNames == {"hello", "other"}
ClassBodies == [BodyNames -> AttrKinds]

\* def __new__(cls, name, bases, attrs):
\*     if 'hello' not in attrs: raise TypeError('Missing hello method')
\*     return super().__new__(cls, name, bases, attrs)
HelloMeta_new(name, attrs) ==
    IF attrs["hello"] = "absent"
    THEN [outcome |-> "TypeError", message |-> "Missing hello method", created |-> {}]
    ELSE [outcome |-> "created", message |-> "",
          created |-> {[name |-> name, attrs |-> attrs]}]

\* class <name>(metaclass=HelloMeta): <body>
HelloClassStatement ==
    /\ Cardinality(hClasses) < MaxClasses
    /\ \E name \in ClassNames, attrs \in ClassBodies :
         LET r == HelloMeta_new(name, attrs)
         IN /\ hClasses' = hClasses \cup r.created
            /\ hRes' = [attempted |-> TRUE, name |-> name, attrs |-> attrs,
                        outcome |-> r.outcome, message |-> r.message,
                        before |-> hClasses]
    /\ UNCHANGED <<mpc, mName, mTrace, mOut, mCreated>>
    /\ UNCHANGED <<ctxVars, gilVars, genVars, dynVars>>

\* ==========================================================================
\* Initial state and specifications
\* ==========================================================================
InitCtx ==
    /\ db = DatabaseConnectionContextManager
    /\ dbOut = <<>>
    /\ dbLast = "init"
    /\ wpc = "idle"
    /\ wBody = "normal"
    /\ wTrace = <<>>
    /\ wOut = <<>>
    /\ wValue = "unbound"
    /\ wBlocks = 0

InitGil ==
    /\ gil1 = NoThread
    /\ main1 = "spawn_t1"
    /\ pc1 = [t \in Threads1 |-> "unstarted"]
    /\ gil3 = NoThread
    /\ main3 = [spawned |-> 0, joined |-> 0]
    /\ pc3 = [t \in Threads3 |-> "unstarted"]
    /\ gil4 = NoThread
    /\ pc4 = "idle"
    /\ err4 = <<>>
    /\ calls4 = 0

InitGen ==
    /\ genBuilt = FALSE
    /\ gen = MyGenerator(0, 0)
    /\ genStart = 0
    /\ pyErr = "none"
    /\ lastNext = [called |-> FALSE, exhausted |-> FALSE, threw |-> FALSE, returned |-> FALSE]
    /\ fpc = "idle"
    /\ fFrom = 0
    /\ fOut = <<>>

InitDyn ==
    /\ cls = "none"
    /\ store = DynamicAttributes_init
    /\ aRes = [op |-> "none", name |-> "", outcome |-> "ok", value |-> NoneVal,
               before |-> DynamicAttributes_init, absent |-> TRUE]
    /\ aPrinted = NoLine
    /\ lastSet = [n \in Names |-> Absent]
    /\ rebound = FALSE

InitMeta ==
    /\ mpc = "idle"
    /\ mName = "MyClass"
    /\ mTrace = <<>>
    /\ mOut = <<>>
    /\ mCreated = 0
    /\ hClasses = {}
    /\ hRes = [attempted |-> FALSE, name |-> "MyClass",
               attrs |-> [n \in BodyNames |-> "absent"],
               outcome |-> "created", message |-> "", before |-> {}]

Init == InitCtx /\ InitGil /\ InitGen /\ InitDyn /\ InitMeta

NextCtx ==
    \/ DbEnter
    \/ DbExit
    \/ DbExecuteQuery
    \/ DbBeginTransaction
    \/ DbCommitTransaction
    \/ WithStart
    \/ WithEnter
    \/ WithBody
    \/ WithExit

SpecCtx == Init /\ [][NextCtx]_vars

NextGil ==
    \/ Main1Spawn
    \/ Main1Join
    \/ \E t \in Threads1 : Thread1OtherBefore(t)
    \/ \E t \in Threads1 : Thread1Acquire(t)
    \/ \E t \in Threads1 : Thread1PythonAndRelease(t)
    \/ \E t \in Threads1 : Thread1OtherAfter(t)
    \/ Main3Spawn
    \/ Main3Join
    \/ \E t \in Threads3 : Thread3Acquire(t)
    \/ \E t \in Threads3 : Thread3PythonAndRelease(t)
    \/ \E t \in Threads3 : Thread3PythonRaises(t)
    \/ Call4Acquire
    \/ Call4Python
    \/ Call4Catch
    \/ Call4Return
    \/ Call4Again
    \/ \E t \in Others4 : Other4Acquire(t)
    \/ \E t \in Others4 : Other4Release(t)

SpecGil == Init /\ [][NextGil]_vars

NextGen ==
    \/ GenConstruct
    \/ GenCallNext
    \/ ForStart

SpecGen == Init /\ [][NextGen]_vars

NextDyn ==
    \/ DynConstruct
    \/ DynGet
    \/ DynSet
    \/ DynDel

SpecDyn == Init /\ [][NextDyn]_vars

NextMeta ==
    \/ MetaClassStatement
    \/ MetaPrepare
    \/ MetaBody
    \/ MetaNew
    \/ MetaInit
    \/ HelloClassStatement

SpecMeta == Init /\ [][NextMeta]_vars

\* ==========================================================================
\* Properties of the context managers
\* ==========================================================================
\* C1: the connection is connected exactly while inside the context: false after
\* construction, true from each __enter__ until the next __exit__, false after
\* every __exit__.
C1_ConnectedExactlyInsideContext == db.connected <=> (dbLast = "enter")

\* C1 witness: the manager was entered, used and left again.
C1_Witness ==
    /\ dbLast = "exit"
    /\ Len(dbOut) = MaxOut
    /\ dbOut[1] = enter_line
    /\ dbOut[2] = "Beginning transaction"

\* C2: in every with block __enter__ runs exactly once before the body and
\* __exit__ exactly once after it, whether the body ends normally or raises.
C2_EnterOnceExitOnce ==
    /\ wpc = "enter" => wTrace = <<>>
    /\ wpc = "body" => wTrace = <<"enter">>
    /\ wpc = "exit" => wTrace = <<"enter", "body">>
    /\ wpc \in {"done", "propagated"} => wTrace = <<"enter", "body", "exit">>

\* C2 witness: a with block whose body raised has ended, after __exit__ ran.
C2_Witness ==
    /\ wpc = "propagated"
    /\ wBody = "raise"
    /\ wTrace = <<"enter", "body", "exit">>
\* ==========================================================================
\* Properties of the GIL examples
\* ==========================================================================
InPython1 == {t \in Threads1 : pc1[t] = "python"}
InPython3 == {t \in Threads3 : pc3[t] \in {"python", "terminate"}}

\* C3: in the two-thread and the four-thread example at most one thread at a
\* time is inside the section guarded by gil_scoped_acquire, and it is the one
\* holding the GIL.
C3_OneThreadInPython ==
    /\ Cardinality(InPython1) <= 1
    /\ Cardinality(InPython3) <= 1
    /\ \A t \in InPython1 : gil1 = t
    /\ \A t \in InPython3 : gil3 = t

\* C3 witness: in both examples a thread is inside the section while another
\* waits for the GIL, and an earlier thread has already been through it.
C3_Witness ==
    /\ pc1[1] = "python" /\ pc1[2] = "acquire"
    /\ pc3[2] = "python" /\ pc3[1] = "done" /\ pc3[3] = "acquire" /\ pc3[4] = "acquire"

\* C4: when call_python_function has returned, normally or through the catch
\* block, the calling thread no longer holds the GIL.
C4_GilReleasedOnReturn == pc4 = "returned" => gil4 # Caller4

\* C4 witness: the call returned after python_function raised and was caught.
C4_Witness ==
    /\ pc4 = "returned"
    /\ err4 = <<"Python error message", "Caught Python exception">>

\* ==========================================================================
\* Properties of MyGenerator
\* ==========================================================================
\* start, start+1, ..., end-1
Range(start, end) ==
    [k \in 1 .. (IF end > start THEN end - start ELSE 0) |-> start + k - 1]

\* C5: a for loop over MyGenerator(start, end) yields exactly start, ...,
\* end-1 in that order, each once, and then stops: once the for statement over
\* a generator no one has advanced has run, it has stopped without an error
\* and has printed exactly that range.
C5_ForLoopYieldsRange ==
    (fpc # "idle" /\ fFrom = genStart) =>
        /\ fpc = "stopped"
        /\ fOut = Range(genStart, gen.m_end)

\* C6: a call of next() made when there are no more numbers raises
\* StopIteration and hands no number back.
C6_ExhaustedNextRaises ==
    (lastNext.called /\ lastNext.exhausted) =>
        (lastNext.threw /\ ~lastNext.returned /\ pyErr = "StopIteration")

\* ==========================================================================
\* Properties of the dynamic attribute classes
\* ==========================================================================
\* The attributes the claims are about: every name but the storage attribute.
Dynamic(name) == cls # "none" /\ name # StorageName(cls)

\* C7 as stated: after any sequence of sets and deletes, reading n returns the
\* value of the most recent set of n, provided n was set and not deleted since.
C7_ReadReturnsLastSet ==
    (aRes.op = "get" /\ Dynamic(aRes.name) /\ lastSet[aRes.name] # Absent) =>
        (aRes.outcome = "value" /\ aRes.value = IntVal(lastSet[aRes.name]))

\* C7 amended: the same, for names that normal lookup does not find on the class
\* and on an instance whose storage attribute was not reassigned.
C7_ReadReturnsLastSet_Amended ==
    (/\ aRes.op = "get" /\ Dynamic(aRes.name) /\ lastSet[aRes.name] # Absent
     /\ aRes.name \notin ClassAttrs
     /\ ~rebound) =>
        (aRes.outcome = "value" /\ aRes.value = IntVal(lastSet[aRes.name]))

\* C7 witness: new_attr was set, set again to another value, and read back.
C7_Witness ==
    /\ aRes.op = "get" /\ aRes.name = "new_attr"
    /\ ~rebound
    /\ lastSet["new_attr"] = 2
    /\ aPrinted = [verb |-> "Setting attribute", name |-> "new_attr", value |-> IntVal(2)]
    /\ aRes.value = IntVal(2)

\* C8 as stated: reading or deleting an attribute that is not present (never
\* set, or deleted since its last set) raises AttributeError and leaves the
\* stored attributes unchanged.
C8_MissingRaisesAttributeError ==
    (aRes.op \in {"get", "del"} /\ Dynamic(aRes.name) /\ aRes.absent) =>
        (aRes.outcome = "AttributeError" /\ store = aRes.before)

\* C8 amended: the same on an instance whose storage attribute was not
\* reassigned, reading a name that normal lookup finds on the class excepted.
C8_MissingRaisesAttributeError_Amended ==
    (/\ aRes.op \in {"get", "del"} /\ Dynamic(aRes.name) /\ aRes.absent
     /\ ~(aRes.op = "get" /\ aRes.name \in ClassAttrs)
     /\ ~rebound) =>
        (aRes.outcome = "AttributeError" /\ store = aRes.before)

\* C8 witness: new_attr was set and deleted, and deleting it again failed.
C8_Witness ==
    /\ aRes.op = "del" /\ aRes.name = "new_attr" /\ aRes.absent
    /\ aRes.outcome = "AttributeError"
    /\ ~rebound
    /\ aPrinted = [verb |-> "Deleting attribute", name |-> "new_attr", value |-> NoneVal]
    /\ store.d["__init__"] = 1

\* ==========================================================================
\* Properties of the metaclasses
\* ==========================================================================
\* C9: each creation of a class with metaclass MetaProtocol invokes
\* __prepare__, then __new__, then __init__, once each and in that order, and
\* prints 'Prepare: <name>', 'New: <name>', 'Init: <name>'.
C9_PrepareNewInit ==
    /\ mpc # "failed"
    /\ mpc \in {"idle", "prepare"} => mTrace = <<>>
    /\ mpc \in {"body", "new"} => mTrace = <<"__prepare__">>
    /\ mpc = "init" => mTrace = <<"__prepare__", "__new__">>
    /\ mpc = "done" =>
         /\ mTrace = <<"__prepare__", "__new__", "__init__">>
         /\ mOut = <<<<"Prepare:", mName>>, <<"New:", mName>>, <<"Init:", mName>>>>

\* C9 witness: a second class statement has run to its end.
C9_Witness ==
    /\ mpc = "done"
    /\ mCreated = 2
    /\ mOut = <<<<"Prepare:", "MyClass">>, <<"New:", "MyClass">>, <<"Init:", "MyClass">>>>

\* C10: every class created with metaclass HelloMeta has a hello method, and
\* a class statement without one raises TypeError('Missing hello method') and
\* creates no class.
C10_EveryClassHasHelloMethod ==
    /\ \A c \in hClasses : c.attrs["hello"] = "function"
    /\ (hRes.attempted /\ hRes.attrs["hello"] # "function") =>
         /\ hRes.outcome = "TypeError"
         /\ hRes.message = "Missing hello method"
         /\ hClasses = hRes.before
====
